---- MODULE Spec2Model ----
(***************************************************************************)
(* A model of the file-synchronised collection store of                    *)
(* crates/vault/src/db.rs: FileDB<T>, the Sync<I, T> pipeline and the redb *)
(* database file oxide.db with its two tables.                             *)
(*                                                                         *)
(* The directory tree is the environment: files are created, rewritten,    *)
(* removed and renamed between (and during) the operations of the store.   *)
(* The item type T of the model is a 16-bit unsigned integer, stored in    *)
(* bincode's fixed-width little-endian form.                               *)
(***************************************************************************)
EXTENDS Integers, Sequences, FiniteSets, TLC

\* ---------------------------------------------------------------- bounds
MaxStamp == 2       \* modification stamps are 1..MaxStamp
MaxEvents == 2      \* file changes and injected errors in one behaviour
MaxItems == 2       \* the items of a key in a main table that is read

\* size_of::<u128>(): the width of a stored FileState
StampWidth == 16

\* ------------------------------------------------------------ the domain
Keys == {"a.md", "b.md"}
\* redb iterates a table in ascending key order
KeyOrder == <<"a.md", "b.md">>
Stamps == 1..MaxStamp
\* a file's text, as the sequence of its lines (a line is an item of T)
Contents == {<<>>, <<1, 2>>}
Unit == <<>>

NoFile == [present |-> FALSE, stamp |-> 0, content |-> <<>>]
File(s, c) == [present |-> TRUE, stamp |-> s, content |-> c]

\* Option<X> as a sequence of at most one element
None == <<>>
Some(x) == <<x>>

EmptyTable == [k \in {} |-> <<>>]

VARIABLES
    fs,          \* the directory tree: file key -> file (or NoFile)
    dbState,     \* oxide.db: "absent", "empty" (no tables yet) or "tables"
    mainTable,   \* main-table: file key -> sequence of encoded items
    stateTable,  \* state-table: file key -> encoded FileState
    pc,          \* what the caller holds: "closed", "store" or "sync"
    cache,       \* FileDB::cache, an Option of a sequence of <<key, item>>
    updates,     \* Sync::updates, a sequence of FileItemUpdate
    deletes,     \* Sync::deletes
    stage,       \* the carrier type of the session: "unit", "content", "item"
    scan,        \* the pairs the scanner observed in this session's new_msync
    det,         \* the session used no stage but populate (no read failure), map, flat_map, inner_flatten
    ret,         \* the last fallible operation of the store and how it returned
    renamed,     \* <<old, new>>: the last file change before the walk was this rename
    walked,      \* new_msync has walked the tree at least once
    nEvents,     \* the file changes and injected errors so far
    tree,        \* a directory with named entries, as WalkDir meets it
    txn,         \* the write transaction in progress, an Option
    reader,      \* a read transaction and what its reader has seen
    unwritten    \* the updates <<key, stamp>> that commits have passed over

vars == <<fs, dbState, mainTable, stateTable, pc, cache, updates, deletes,
          stage, scan, det, ret, renamed, walked, nEvents,
          tree, txn, reader, unwritten>>

dbVars == <<dbState, mainTable, stateTable>>
sessVars == <<updates, deletes, stage, scan, det>>
\* what the operations of a session on a plain directory leave alone
aux == <<tree, txn, reader>>
\* what every operation leaves alone that does not record a commit
kept == <<aux, unwritten>>

\* ------------------------------------------------------------ sequences
RECURSIVE SeqOfSet(_)
SeqOfSet(S) ==
    IF S = {} THEN <<>>
    ELSE LET x == CHOOSE y \in S : TRUE IN <<x>> \o SeqOfSet(S \ {x})

\* every ordering of a finite set (the iteration order of a HashSet)
RECURSIVE Perms(_)
Perms(S) ==
    IF S = {} THEN {<<>>}
    ELSE UNION {{<<x>> \o p : p \in Perms(S \ {x})} : x \in S}

RECURSIVE Flatten(_)
Flatten(ss) ==
    IF ss = <<>> THEN <<>> ELSE Head(ss) \o Flatten(Tail(ss))

Min(a, b) == IF a <= b THEN a ELSE b

\* --------------------------------------------------------------- codecs
\* little-endian bytes of n, w of them
RECURSIVE LeBytes(_, _)
LeBytes(n, w) ==
    IF w = 0 THEN <<>> ELSE <<n % 256>> \o LeBytes(n \div 256, w - 1)

RECURSIVE FromLeBytes(_)
FromLeBytes(bs) ==
    IF bs = <<>> THEN 0 ELSE Head(bs) + 256 * FromLeBytes(Tail(bs))

\* redb::Value for FileState
as_bytes(s) == LeBytes(s, StampWidth)
from_bytes(bs) == FromLeBytes(bs)

\* bincode::serialize / bincode::deserialize of an item
serialize(item) == LeBytes(item, 2)
Decodable(bs) == Len(bs) >= 2
deserialize_db_value(bs) == FromLeBytes(SubSeq(bs, 1, 2))

\* --------------------------------------------------------------- tables
\* an insert that leaves the table with the one key
Insert_alone(t, k, v) == [x \in {k} |-> v]

Insert(t, k, v) == [x \in DOMAIN t \cup {k} |-> IF x = k THEN v ELSE t[x]]
Remove(t, k) == [x \in DOMAIN t \ {k} |-> t[x]]

\* ----------------------------------------------------------------- Init
\* how an operation returned; for run also the step that failed and the keys
\* its transaction had inserted, overwritten with other items, and removed
Ret(op, status) ==
    [op |-> op, status |-> status, note |-> "", wrote |-> {}, over |-> {}, removed |-> {}]

\* n more injected errors fit the budget
Faults(n) == nEvents + n <= MaxEvents /\ nEvents' = nEvents + n
B2N(b) == IF b THEN 1 ELSE 0

Init ==
    /\ fs \in [Keys -> {NoFile} \cup {File(1, c) : c \in Contents}]
    /\ dbState = "absent"
    /\ mainTable = EmptyTable
    /\ stateTable = EmptyTable
    /\ pc = "closed"
    /\ cache = None
    /\ updates = <<>>
    /\ deletes = {}
    /\ stage = "none"
    /\ scan = {}
    /\ det = TRUE
    /\ ret = Ret("init", "ok")
    /\ renamed = <<>>
    /\ walked = FALSE
    /\ nEvents = 0
    /\ tree = <<>>
    /\ txn = None
    /\ reader = None
    /\ unwritten = {}

\* ------------------------------------------------------ the environment
\* The store reads the directory tree in new_msync (the walk) and in
\* async_populate (the file texts) only. A change of a file at any other time
\* commutes with the steps of the store up to its next walk, none of which
\* reads the tree, so the model lets files change right before a walk (while
\* the caller holds the store) and between the walk and the populate. The
\* tree the first walk sees is any tree of Init.
FsMayChange ==
    /\ nEvents < MaxEvents
    /\ \/ pc = "store" /\ walked
       \/ pc = "sync" /\ stage = "unit"

WriteFile(k, s, c) ==
    /\ FsMayChange
    /\ fs[k] # File(s, c)
    /\ fs' = [fs EXCEPT ![k] = File(s, c)]
    /\ nEvents' = nEvents + 1
    /\ renamed' = <<>>
    /\ UNCHANGED <<kept, dbVars, pc, cache, sessVars, ret, walked>>

RemoveFile(k) ==
    /\ FsMayChange
    /\ fs[k].present
    /\ fs' = [fs EXCEPT ![k] = NoFile]
    /\ nEvents' = nEvents + 1
    /\ renamed' = <<>>
    /\ UNCHANGED <<kept, dbVars, pc, cache, sessVars, ret, walked>>

\* rename(2) onto a name that is free: the file keeps its stamp and text
RenameFile(k, n) ==
    /\ FsMayChange
    /\ fs[k].present
    /\ ~fs[n].present
    /\ fs' = [fs EXCEPT ![k] = NoFile, ![n] = fs[k]]
    /\ nEvents' = nEvents + 1
    /\ renamed' = IF pc = "store" THEN <<k, n>> ELSE <<>>
    /\ UNCHANGED <<kept, dbVars, pc, cache, sessVars, ret, walked>>

\* ------------------------------------------------------------- FileDB::new
\* a db_iter that gives up on a key at its first undecodable item
db_iter_until_bad(main) ==
    Flatten([i \in 1..Len(KeyOrder) |->
        IF KeyOrder[i] \in DOMAIN main
        THEN LET k == KeyOrder[i]
                 bad == {j \in DOMAIN main[k] : ~Decodable(main[k][j])}
                 n == IF bad = {} THEN Len(main[k])
                      ELSE (CHOOSE j \in bad : \A x \in bad : j <= x) - 1
             IN  [j \in 1..n |-> <<k, deserialize_db_value(main[k][j])>>]
        ELSE <<>>])

\* db_iter: every decodable item of the main table with its key, keys ascending
db_iter(main) ==
    Flatten([i \in 1..Len(KeyOrder) |->
        IF KeyOrder[i] \in DOMAIN main
        THEN LET k == KeyOrder[i]
                 ok == SelectSeq(main[k], Decodable)
             IN [j \in 1..Len(ok) |-> <<k, deserialize_db_value(ok[j])>>]
        ELSE <<>>])

\* a cache that misses the last item of the table
mem_map_short(main) ==
    IF db_iter(main) = <<>> THEN <<>>
    ELSE SubSeq(db_iter(main), 1, Len(db_iter(main)) - 1)

mem_map(main) == db_iter(main)

\* ------------------------------------------------- the reads of the database
\* anyhow::Result<X>
Ok(x) == [ok |-> TRUE, val |-> x]
Err == [ok |-> FALSE, val |-> <<>>]

\* the entries of the main table as table.iter() yields them: keys ascending
table_iter(main) ==
    LET present == SelectSeq(KeyOrder, LAMBDA k : k \in DOMAIN main)
    IN  [i \in 1..Len(present) |-> <<present[i], main[present[i]]>>]

\* FileDB::values: the items of db_iter(None)
values(main) ==
    LET items == db_iter(main)
    IN  Ok([i \in 1..Len(items) |-> items[i][2]])

\* FileDB::keys
FileDB_keys(main) ==
    LET entries == table_iter(main)
    IN  Ok([i \in 1..Len(entries) |-> entries[i][1]])

\* the encoded items of all entries, in the order fold and map visit them
all_values(main) ==
    LET entries == table_iter(main)
    IN  Flatten([i \in 1..Len(entries) |->
            [j \in 1..Len(entries[i][2]) |-> <<entries[i][1], entries[i][2][j]>>]])

\* FileDB::fold with f = push (key, item): deserialize_db_value(value)? ends
\* the fold with the error
RECURSIVE try_fold(_, _)
try_fold(acc, vs) ==
    IF vs = <<>> THEN Ok(acc)
    ELSE IF ~Decodable(Head(vs)[2]) THEN Err
    ELSE try_fold(Append(acc, <<Head(vs)[1], deserialize_db_value(Head(vs)[2])>>),
                  Tail(vs))

fold(main) == try_fold(<<>>, all_values(main))

\* FileDB::map with f = the item, as in tests::test_msync_workflow: the
\* Results collect into one Result, the first Err if there is any
FileDB_map(main) ==
    LET vs == all_values(main)
    IN  IF \E i \in DOMAIN vs : ~Decodable(vs[i][2]) THEN Err
        ELSE Ok([i \in 1..Len(vs) |-> deserialize_db_value(vs[i][2])])

\* FileDB::new: the cache is None when the database cannot be read
new(ioFail) ==
    /\ pc = "closed"
    /\ ioFail => dbState = "tables"
    /\ pc' = "store"
    /\ cache' = IF dbState = "tables" /\ ~ioFail THEN Some(mem_map(mainTable)) ELSE None
    /\ updates' = <<>>
    /\ deletes' = {}
    /\ stage' = "none"
    /\ scan' = {}
    /\ det' = TRUE
    /\ ret' = Ret("new", "ok")
    /\ Faults(B2N(ioFail))
    /\ UNCHANGED <<kept, fs, dbVars, renamed, walked>>

\* -------------------------------------------------------- FileDB::new_msync
FileItemUpdate(key, state, item) == [key |-> key, state |-> state, sync_item |-> item]

\* a walk that takes an entry that failed as found
walk_keeps_failed(skipped) ==
    {<<k, fs[k].stamp>> : k \in {x \in Keys : fs[x].present}}

\* the walk of the directory; the entries in `skipped` fail with an I/O error
walk(skipped) ==
    {<<k, fs[k].stamp>> : k \in {x \in Keys : fs[x].present /\ x \notin skipped}}

\* FileDB::state on an existing database with its tables
state == {<<k, from_bytes(stateTable[k])>> : k \in DOMAIN stateTable}

\* a difference of the key sets alone, which would miss a changed stamp
diff_new_keys(N, O) == {p \in N : p[1] \notin {q[1] : q \in O}}

diff_new_and_different(N, O) == N \ O

\* a difference of the pairs, which would delete a key whose stamp changed
removed_pairs(N, O) == {p[1] : p \in O \ N}

\* every persisted key, scanned or not
removed_all_old(N, O) == {p[1] : p \in O}

removed_paths(N, O) == {p[1] : p \in O} \ {p[1] : p \in N}

\* new_msync(self): a database file without the state table makes state() fail
\* (TableDoesNotExist); a missing file is Ok(None). When the root directory
\* cannot be opened (rootFail) the walk yields that one error, which
\* filter_map(|entry| entry.ok()) drops like the error of any entry.
new_msync(skipped, ioFail, rootFail) ==
    /\ pc = "store"
    /\ skipped \subseteq {k \in Keys : fs[k].present}
    /\ rootFail => skipped = {}
    /\ ioFail => dbState = "tables"
    /\ walked' = TRUE
    /\ LET N == IF rootFail THEN {} ELSE walk(skipped)
           O == IF dbState = "tables" THEN state ELSE {}
       IN  IF dbState = "empty" \/ (dbState = "tables" /\ ioFail)
           THEN /\ pc' = "closed"
                /\ cache' = None
                /\ updates' = <<>>
                /\ deletes' = {}
                /\ stage' = "none"
                /\ scan' = {}
                /\ renamed' = <<>>
                /\ ret' = Ret("new_msync", "err")
           ELSE /\ pc' = "sync"
                /\ cache' = cache
                /\ \E order \in Perms(diff_new_and_different(N, O)) :
                       updates' = [i \in 1..Len(order) |->
                                      FileItemUpdate(order[i][1], order[i][2], Unit)]
                /\ deletes' = removed_paths(N, O)
                /\ stage' = "unit"
                /\ scan' = N
                /\ renamed' = renamed
                /\ ret' = Ret("new_msync", "ok")
    /\ det' = TRUE
    /\ Faults(Cardinality(skipped) + B2N(ioFail) + B2N(rootFail))
    /\ UNCHANGED <<kept, fs, dbVars>>

\* ------------------------------------------------------------ the pipeline
\* util::ResultIteratorExt::flatten_results_and_log: the Ok values, in order
flatten_results_and_log(rs) ==
    LET ok == SelectSeq(rs, LAMBDA r : r.ok)
    IN  [i \in 1..Len(ok) |-> ok[i].val]

\* the caller's functions the model draws from
\* populate's function: the text itself, as in tests::test_msync_workflow
PopulateFn(key, content) == content

ItemSucc(x) == (x % 2) + 1
MapFns == {"id", "succ"}
MapFn(fn, x) == IF fn = "id" THEN x ELSE ItemSucc(x)

\* flat_map's function: the lines of a text
FlatMapFn(content) == content

BatchFns == {"same", "drop_last", "dup_last"}
BatchFn(fn, xs) ==
    IF fn = "same" \/ xs = <<>> THEN xs
    ELSE IF fn = "drop_last" THEN SubSeq(xs, 1, Len(xs) - 1)
    ELSE Append(xs, xs[Len(xs)])

\* a populate that keeps the update of a file it could not read, with no text
async_populate_keeps_unread(failed) ==
    /\ pc = "sync"
    /\ stage = "unit"
    /\ failed \subseteq {updates[i].key : i \in DOMAIN updates}
    /\ \A k \in failed : fs[k].present
    /\ updates' = [i \in 1..Len(updates) |->
                      FileItemUpdate(updates[i].key, updates[i].state,
                          IF fs[updates[i].key].present /\ updates[i].key \notin failed
                          THEN PopulateFn(updates[i].key, fs[updates[i].key].content)
                          ELSE <<>>)]
    /\ stage' = "content"
    /\ det' = (det /\ failed = {})
    /\ Faults(Cardinality(failed))
    /\ renamed' = <<>>
    /\ UNCHANGED <<kept, fs, dbVars, pc, cache, deletes, scan, ret, walked>>

\* async_populate: reads of the files in `failed` fail; so do reads of files
\* that are gone
async_populate(failed) ==
    /\ pc = "sync"
    /\ stage = "unit"
    /\ failed \subseteq {updates[i].key : i \in DOMAIN updates}
    /\ \A k \in failed : fs[k].present
    /\ LET results == [i \in 1..Len(updates) |->
               LET u == updates[i]
               IN  IF fs[u.key].present /\ u.key \notin failed
                   THEN [ok |-> TRUE,
                         val |-> FileItemUpdate(u.key, u.state,
                                     PopulateFn(u.key, fs[u.key].content))]
                   ELSE [ok |-> FALSE, val |-> u]]
       IN  updates' = flatten_results_and_log(results)
    /\ stage' = "content"
    /\ det' = (det /\ failed = {})
    /\ Faults(Cardinality(failed))
    /\ renamed' = <<>>
    /\ UNCHANGED <<kept, fs, dbVars, pc, cache, deletes, scan, ret, walked>>

\* Sync::map with FileItemUpdate::map
map(fn) ==
    /\ pc = "sync"
    /\ stage = "item"
    /\ updates' = [i \in 1..Len(updates) |->
                      FileItemUpdate(updates[i].key, updates[i].state,
                                     MapFn(fn, updates[i].sync_item))]
    /\ UNCHANGED <<kept, fs, dbVars, pc, cache, deletes, stage, scan, det, ret,
                   renamed, walked, nEvents>>

\* each update expands to the items of its collection, which keep its key and state
Expanded(ups) ==
    Flatten([i \in 1..Len(ups) |->
        LET c == ups[i].sync_item
        IN  [j \in 1..Len(c) |-> FileItemUpdate(ups[i].key, ups[i].state, c[j])]])

flat_map ==
    /\ pc = "sync"
    /\ stage = "content"
    /\ updates' = Expanded([i \in 1..Len(updates) |->
                      FileItemUpdate(updates[i].key, updates[i].state,
                                     FlatMapFn(updates[i].sync_item))])
    /\ stage' = "item"
    /\ UNCHANGED <<kept, fs, dbVars, pc, cache, deletes, scan, det, ret,
                   renamed, walked, nEvents>>

inner_flatten ==
    /\ pc = "sync"
    /\ stage = "content"
    /\ updates' = Expanded(updates)
    /\ stage' = "item"
    /\ UNCHANGED <<kept, fs, dbVars, pc, cache, deletes, scan, det, ret,
                   renamed, walked, nEvents>>

\* keys.into_iter().zip(result): as long as the shorter of the two
zip(keys, result) ==
    [i \in 1..Min(Len(keys), Len(result)) |->
        FileItemUpdate(keys[i][1], keys[i][2], result[i])]

\* external_async_map: the caller's function returns Err, or Ok of a vector
external_async_map(fn, userErr) ==
    /\ pc = "sync"
    /\ stage = "item"
    /\ LET keys == [i \in 1..Len(updates) |-> <<updates[i].key, updates[i].state>>]
           old_values == [i \in 1..Len(updates) |-> updates[i].sync_item]
           result == BatchFn(fn, old_values)
       IN  IF userErr
           THEN /\ pc' = "closed"
                /\ cache' = None
                /\ updates' = <<>>
                /\ deletes' = {}
                /\ stage' = "none"
                /\ scan' = {}
                /\ det' = TRUE
                /\ ret' = Ret("external_async_map", "err")
           ELSE /\ pc' = "sync"
                /\ cache' = cache
                /\ updates' = zip(keys, result)
                /\ deletes' = deletes
                /\ stage' = stage
                /\ scan' = scan
                /\ det' = FALSE
                /\ ret' = ret
    /\ Faults(B2N(userErr))
    /\ UNCHANGED <<kept, fs, dbVars, renamed, walked>>

\* a drop of the session that applies its deletes
abandon_flushes ==
    /\ pc = "sync"
    /\ mainTable' = [k \in DOMAIN mainTable \ deletes |-> mainTable[k]]
    /\ stateTable' = [k \in DOMAIN stateTable \ deletes |-> stateTable[k]]
    /\ pc' = "closed"
    /\ cache' = None
    /\ updates' = <<>>
    /\ deletes' = {}
    /\ stage' = "none"
    /\ scan' = {}
    /\ det' = TRUE
    /\ renamed' = <<>>
    /\ UNCHANGED <<kept, fs, dbState, ret, walked, nEvents>>

\* the caller drops the session
abandon ==
    /\ pc = "sync"
    /\ pc' = "closed"
    /\ cache' = None
    /\ updates' = <<>>
    /\ deletes' = {}
    /\ stage' = "none"
    /\ scan' = {}
    /\ det' = TRUE
    /\ renamed' = <<>>
    /\ UNCHANGED <<kept, fs, dbVars, ret, walked, nEvents>>

\* --------------------------------------------------------------- Sync::run
\* into_group_map_by(|update| (update.key, update.state)): the groups, and
\* the items of a group in the order of the updates
\* a group for every scanned file, with carriers or without
GroupKeys_of_scan(ups) == scan \cup {<<ups[i].key, ups[i].state>> : i \in DOMAIN ups}

GroupKeys(ups) == {<<ups[i].key, ups[i].state>> : i \in DOMAIN ups}

\* the items of a group in the opposite order
Collection_reversed(ups, g) ==
    LET sel == SelectSeq(ups, LAMBDA u : u.key = g[1] /\ u.state = g[2])
    IN  [i \in 1..Len(sel) |-> sel[Len(sel) + 1 - i].sync_item]

Collection(ups, g) ==
    LET sel == SelectSeq(ups, LAMBDA u : u.key = g[1] /\ u.state = g[2])
    IN  [i \in 1..Len(sel) |-> sel[i].sync_item]

\* the vector handed to apply_sync, its groups in the order `order`
grouped(ups, order) ==
    [i \in 1..Len(order) |-> <<order[i][1], order[i][2], Collection(ups, order[i])>>]

\* ------------------------------------------------------ FileDB::apply_sync
Tables(main, st) == [main |-> main, state |-> st]

\* a loop that also stores the stamp of every scanned file, carriers or none
RECURSIVE insert_updates_and_scanned(_, _)
insert_updates_and_scanned(t, gs) ==
    IF gs = <<>>
    THEN Tables(t.main,
                [k \in DOMAIN t.state \cup {p[1] : p \in scan} |->
                    IF \E p \in scan : p[1] = k
                    THEN as_bytes((CHOOSE p \in scan : p[1] = k)[2])
                    ELSE t.state[k]])
    ELSE insert_updates_and_scanned(
             Tables(Insert(t.main, Head(gs)[1],
                           [i \in 1..Len(Head(gs)[3]) |-> serialize(Head(gs)[3][i])]),
                    Insert(t.state, Head(gs)[1], as_bytes(Head(gs)[2]))),
             Tail(gs))

\* the loop over updates: both tables get the key
RECURSIVE insert_updates(_, _)
insert_updates(t, gs) ==
    IF gs = <<>> THEN t
    ELSE LET key == Head(gs)[1]
             st == Head(gs)[2]
             collection == Head(gs)[3]
             serialized == [i \in 1..Len(collection) |-> serialize(collection[i])]
         IN  insert_updates(Tables(Insert(t.main, key, serialized),
                                   Insert(t.state, key, as_bytes(st))),
                            Tail(gs))

\* a loop over deletes that forgets the state table
RECURSIVE remove_from_main_only(_, _)
remove_from_main_only(t, ds) ==
    IF ds = <<>> THEN t
    ELSE remove_from_main_only(Tables(Remove(t.main, Head(ds)), t.state), Tail(ds))

\* no loop over deletes
remove_deletes_none(t, ds) == t

\* the loop over deletes: the key leaves both tables
RECURSIVE remove_deletes(_, _)
remove_deletes(t, ds) ==
    IF ds = <<>> THEN t
    ELSE remove_deletes(Tables(Remove(t.main, Head(ds)), Remove(t.state, Head(ds))),
                        Tail(ds))

\* write_txn.commit(): the transaction's tables become the database's
commit(before, written) == written

\* a store without transactions: what was written before the failure stays
abort_keeps_writes(before, written) == written

\* write_txn dropped by an early return: redb aborts it
abort(before, written) == before

\* where apply_sync may return early
FailPoints == {"create", "begin_write", "open_table", "serialize", "insert",
               "remove", "commit", "mem_map"}

\* apply_sync in a session's run: the transaction has inserted the first nUp
\* groups and removed `removed` when the step failAt fails ("none": no failure)
apply_sync(order, nUp, removed, failAt) ==
    LET before == Tables(mainTable, stateTable)
        gs == grouped(updates, order)
        written == remove_deletes(insert_updates(before, SubSeq(gs, 1, nUp)),
                                  SeqOfSet(removed))
        after == IF failAt \in {"none", "mem_map"}
                 THEN commit(before, written)
                 ELSE abort(before, written)
    IN  /\ mainTable' = after.main
        /\ stateTable' = after.state
        /\ dbState' = IF failAt \in {"none", "mem_map"} THEN "tables"
                      ELSE IF failAt = "create" \/ dbState # "absent" THEN dbState
                      ELSE "empty"
        /\ pc' = IF failAt = "none" THEN "store" ELSE "closed"
        /\ cache' = IF failAt = "none" THEN Some(mem_map(after.main)) ELSE None
        /\ ret' = [op |-> "run", status |-> IF failAt = "none" THEN "ok" ELSE "err",
                   note |-> failAt,
                   wrote |-> DOMAIN written.main \cap {gs[i][1] : i \in 1..nUp},
                   over |-> {k \in DOMAIN mainTable \cap DOMAIN written.main :
                                mainTable[k] # written.main[k]},
                   removed |-> removed]

run_with(order, nUp, removed, failAt) ==
    /\ failAt \in {"create", "begin_write", "open_table"} => nUp = 0 /\ removed = {}
    /\ failAt \in {"serialize", "insert"} => nUp < Len(order) /\ removed = {}
    /\ failAt = "remove" => nUp = Len(order) /\ removed # deletes
    /\ failAt \in {"commit", "mem_map", "none"} => nUp = Len(order) /\ removed = deletes
    /\ apply_sync(order, nUp, removed, failAt)
    /\ updates' = <<>>
    /\ deletes' = {}
    /\ stage' = "none"
    /\ scan' = {}
    /\ det' = (det /\ failAt = "none")
    /\ Faults(B2N(failAt # "none"))
    /\ UNCHANGED <<aux, fs, renamed, walked>>

\* Sync::run: available when the carrier is the item type
run ==
    /\ pc = "sync"
    /\ stage = "item"
    /\ \E order \in Perms(GroupKeys(updates)), nUp \in 0..Cardinality(GroupKeys(updates)),
          removed \in SUBSET deletes, failAt \in FailPoints \cup {"none"} :
           run_with(order, nUp, removed, failAt)
    /\ UNCHANGED unwritten

\* ------------------------------------------------------------ FileDB::iter
\* cache.as_ref().expect(..): a panic when the cache is None
iter ==
    /\ pc = "store"
    /\ IF cache = None
       THEN /\ ret' = Ret("iter", "panic")
            /\ pc' = "closed"
       ELSE /\ ret' = Ret("iter", "ok")
            /\ pc' = pc
    /\ UNCHANGED <<kept, fs, dbVars, cache, sessVars, renamed, walked, nEvents>>

\* ------------------------------------------------ the reads as operations
\* a read of the store's database by the caller that holds the store
Read(op, result) ==
    /\ pc = "store"
    /\ reader' = Some([op |-> op, res |-> IF dbState = "tables" THEN result ELSE Err])
    /\ UNCHANGED <<fs, dbVars, pc, cache, sessVars, ret, renamed, walked, nEvents,
                   tree, txn, unwritten>>

read_db_iter == Read("db_iter", Ok(db_iter(mainTable)))
read_values == Read("values", values(mainTable))
read_keys == Read("keys", FileDB_keys(mainTable))
read_fold == Read("fold", fold(mainTable))
read_map == Read("map", FileDB_map(mainTable))

Next ==
    \/ \E k \in Keys, s \in Stamps, c \in Contents : WriteFile(k, s, c)
    \/ \E k \in Keys : RemoveFile(k)
    \/ \E k \in Keys, n \in Keys : RenameFile(k, n)
    \/ \E ioFail \in BOOLEAN : new(ioFail)
    \/ \E skipped \in SUBSET Keys, ioFail \in BOOLEAN, rootFail \in BOOLEAN :
           new_msync(skipped, ioFail, rootFail)
    \/ \E failed \in SUBSET Keys : async_populate(failed)
    \/ \E fn \in MapFns : map(fn)
    \/ flat_map
    \/ inner_flatten
    \/ \E fn \in BatchFns, userErr \in BOOLEAN : external_async_map(fn, userErr)
    \/ abandon
    \/ run
    \/ iter

Spec == Init /\ [][Next]_vars

\* ------------------------------------ the updates a commit passes over
\* The same operations, with the history of the updates that new_msync
\* returned and that reached a commit with no carrier left.
passed_over ==
    {p \in diff_new_and_different(scan, state) :
        p[1] \notin {updates[i].key : i \in DOMAIN updates}}

\* Sync::run, recording what the commit passed over; a key leaves the record
\* when a commit writes or removes it
run_recording ==
    /\ pc = "sync"
    /\ stage = "item"
    /\ \E order \in Perms(GroupKeys(updates)), nUp \in 0..Cardinality(GroupKeys(updates)),
          removed \in SUBSET deletes, failAt \in FailPoints \cup {"none"} :
           /\ run_with(order, nUp, removed, failAt)
           /\ unwritten' = IF failAt \in {"none", "mem_map"}
                           THEN {p \in unwritten \cup passed_over :
                                    p[1] \notin {order[i][1] : i \in DOMAIN order}
                                                \cup deletes}
                           ELSE unwritten

NextHistory ==
    \/ \E k \in Keys, s \in Stamps, c \in Contents : WriteFile(k, s, c)
    \/ \E k \in Keys : RemoveFile(k)
    \/ \E k \in Keys, n \in Keys : RenameFile(k, n)
    \/ \E ioFail \in BOOLEAN : new(ioFail)
    \/ \E skipped \in SUBSET Keys, ioFail \in BOOLEAN, rootFail \in BOOLEAN :
           new_msync(skipped, ioFail, rootFail)
    \/ \E failed \in SUBSET Keys : async_populate(failed)
    \/ \E fn \in MapFns : map(fn)
    \/ flat_map
    \/ inner_flatten
    \/ \E fn \in BatchFns, userErr \in BOOLEAN : external_async_map(fn, userErr)
    \/ abandon
    \/ run_recording
    \/ iter

SpecHistory == Init /\ [][NextHistory]_vars

\* ------------------------------------------- the walk of a directory tree
\* A name is the sequence of its characters. A tree is the name of its root
\* directory and its files, each with the names on its path below the root
\* (directories first, its own last) and its kind.
N_vault == <<"v", "a", "u", "l", "t">>
N_tmp == <<".", "t", "m", "p", "X">>
N_sub == <<"s", "u", "b">>
N_git == <<".", "g", "i", "t">>
N_dmd == <<"d", ".", "m", "d">>
N_a_md == <<"a", ".", "m", "d">>
N_A_MD == <<"A", ".", "M", "D">>
N_b_markdown == <<"b", ".", "m", "a", "r", "k", "d", "o", "w", "n">>
N_c_Markdown == <<"c", ".", "M", "a", "r", "k", "D", "o", "w", "n">>
N_hidden_md == <<".", "h", ".", "m", "d">>
N_dot_md == <<".", "m", "d">>
N_txt == <<"n", ".", "t", "x", "t">>
N_md == <<"m", "d">>
N_md_bak == <<"a", ".", "m", "d", ".", "b", "a", "k">>

RootNames == {N_vault, N_tmp}
DirNames == {N_sub, N_git, N_dmd}
FileNames == {N_a_md, N_A_MD, N_b_markdown, N_c_Markdown, N_hidden_md, N_dot_md,
              N_txt, N_md, N_md_bak}

\* str::starts_with('.')
starts_with_dot(name) == Len(name) > 0 /\ name[1] = "."

\* Path::extension: what follows the last '.' of the file name, unless the name
\* has none or begins with its only one
extension(name) ==
    LET dots == {i \in DOMAIN name : name[i] = "."}
        last == CHOOSE i \in dots : \A j \in dots : j <= i
    IN  IF dots = {} \/ last = 1 THEN None
        ELSE Some(SubSeq(name, last + 1, Len(name)))

to_ascii_lowercase(c) ==
    CASE c = "A" -> "a" [] c = "D" -> "d" [] c = "K" -> "k" [] c = "M" -> "m"
      [] c = "N" -> "n" [] c = "O" -> "o" [] c = "R" -> "r" [] c = "W" -> "w"
      [] OTHER -> c

eq_ignore_ascii_case(a, b) ==
    /\ Len(a) = Len(b)
    /\ \A i \in DOMAIN a : to_ascii_lowercase(a[i]) = to_ascii_lowercase(b[i])

\* an entry WalkDir yields: the names from the root down to it, and its type
\* (follow_links(false): a symbolic link is neither a directory nor a file)
DirEntry(path, kind) == [path |-> path, kind |-> kind]

\* DirEntry::file_name: the last name of the entry's path, the root's own
\* name for the root
file_name(t, e) == IF e.path = <<>> THEN t.root ELSE e.path[Len(e.path)]

\* the closure given to filter_entry
filter_entry(t, e) ==
    IF e.kind = "dir"
    THEN ~starts_with_dot(file_name(t, e))
    ELSE /\ ~starts_with_dot(file_name(t, e))
         /\ LET ext == extension(file_name(t, e))
            IN  /\ ext # None
                /\ \/ eq_ignore_ascii_case(ext[1], <<"m", "d">>)
                   \/ eq_ignore_ascii_case(ext[1], <<"m", "a", "r", "k", "d", "o", "w", "n">>)

IsPrefix(p, q) == Len(p) <= Len(q) /\ SubSeq(q, 1, Len(p)) = p

\* the entries of the directory at path p
read_dir(t, p) ==
    {DirEntry(f.path, f.kind) : f \in {g \in t.files : Len(g.path) = Len(p) + 1 /\ IsPrefix(p, g.path)}}
    \cup {DirEntry(SubSeq(f.path, 1, Len(p) + 1), "dir") :
              f \in {g \in t.files : Len(g.path) > Len(p) + 1 /\ IsPrefix(p, g.path)}}

\* WalkDir::new(dir).into_iter().filter_entry(..): the walk starts with the
\* root itself; an entry the closure rejects is not yielded, and a rejected
\* directory is not descended into
RECURSIVE WalkDir(_, _)
WalkDir(t, e) ==
    IF ~filter_entry(t, e) THEN {}
    ELSE IF e.kind = "dir"
         THEN {e} \cup UNION {WalkDir(t, c) : c \in read_dir(t, e.path)}
         ELSE {e}

\* new_files_state: the regular files of the walk, each with its path below
\* the root and its stamp
new_files_state(t) ==
    {<<e.path, 1>> : e \in {x \in WalkDir(t, DirEntry(<<>>, "dir")) : x.kind = "file"}}

Trees ==
    {[root |-> r,
      files |-> {[path |-> <<f1>>, kind |-> k1],
                 [path |-> <<d1, f2>>, kind |-> "file"],
                 [path |-> <<d1, d2, N_a_md>>, kind |-> "file"]}] :
        r \in RootNames, f1 \in FileNames, k1 \in {"file", "symlink"},
        d1 \in DirNames, f2 \in {N_A_MD, N_txt}, d2 \in DirNames}

InitScan ==
    /\ fs = [k \in Keys |-> NoFile]
    /\ dbState = "absent"
    /\ mainTable = EmptyTable
    /\ stateTable = EmptyTable
    /\ pc = "store"
    /\ cache = None
    /\ updates = <<>>
    /\ deletes = {}
    /\ stage = "none"
    /\ scan = {}
    /\ det = TRUE
    /\ ret = Ret("new", "ok")
    /\ renamed = <<>>
    /\ walked = FALSE
    /\ nEvents = 0
    /\ tree \in Trees
    /\ txn = None
    /\ reader = None
    /\ unwritten = {}

\* the scan of new_msync on the tree
scan_tree ==
    /\ pc = "store"
    /\ ~walked
    /\ scan' = new_files_state(tree)
    /\ walked' = TRUE
    /\ UNCHANGED <<fs, dbVars, pc, cache, updates, deletes, stage, det, ret, renamed,
                   nEvents, tree, txn, reader, unwritten>>

NextScan == scan_tree

SpecScan == InitScan /\ [][NextScan]_vars

\* ------------------------------------ a reader beside the write transaction
\* apply_sync step by step: the write transaction is begun, each insert and
\* remove is made in it, and it is committed or, on an error, dropped. Beside
\* it a reader (another handle on the same directory) opens the database,
\* begins a read transaction and reads.

\* the inserts and removes of apply_sync, one table at a time, in its order
RECURSIVE write_ops(_, _)
write_ops(gs, ds) ==
    IF gs # <<>>
    THEN LET key == Head(gs)[1]
             collection == Head(gs)[3]
             serialized == [i \in 1..Len(collection) |-> serialize(collection[i])]
         IN  <<[op |-> "insert_main", key |-> key, val |-> serialized],
               [op |-> "insert_state", key |-> key, val |-> as_bytes(Head(gs)[2])]>>
             \o write_ops(Tail(gs), ds)
    ELSE IF ds # <<>>
    THEN <<[op |-> "remove_main", key |-> Head(ds), val |-> <<>>],
           [op |-> "remove_state", key |-> Head(ds), val |-> <<>>]>>
         \o write_ops(gs, Tail(ds))
    ELSE <<>>

\* one insert or remove, made in the tables of the transaction
write_op(t, w) ==
    CASE w.op = "insert_main" -> Tables(Insert(t.main, w.key, w.val), t.state)
      [] w.op = "insert_state" -> Tables(t.main, Insert(t.state, w.key, w.val))
      [] w.op = "remove_main" -> Tables(Remove(t.main, w.key), t.state)
      [] w.op = "remove_state" -> Tables(t.main, Remove(t.state, w.key))

\* a read transaction that sees the writes of the open write transaction
begin_read_uncommitted(committed, pending) == pending

\* begin_read: the tables as last committed
begin_read(committed, pending) == committed

\* Database::create, begin_write, open_table of both tables
txn_begin(order) ==
    /\ pc = "sync"
    /\ stage = "item"
    /\ txn = None
    /\ txn' = Some([status |-> "open",
                    before |-> Tables(mainTable, stateTable),
                    written |-> Tables(mainTable, stateTable),
                    gs |-> grouped(updates, order),
                    ds |-> SeqOfSet(deletes),
                    todo |-> write_ops(grouped(updates, order), SeqOfSet(deletes))])
    /\ dbState' = "tables"
    /\ UNCHANGED <<fs, mainTable, stateTable, pc, cache, sessVars, ret, renamed, walked,
                   nEvents, tree, reader, unwritten>>

\* the next insert or remove
txn_write ==
    /\ txn # None
    /\ txn[1].status = "open"
    /\ txn[1].todo # <<>>
    /\ txn' = Some([txn[1] EXCEPT !.written = write_op(txn[1].written, Head(txn[1].todo)),
                                  !.todo = Tail(txn[1].todo)])
    /\ UNCHANGED <<fs, dbVars, pc, cache, sessVars, ret, renamed, walked, nEvents,
                   tree, reader, unwritten>>

\* an insert, a remove or the commit fails: apply_sync returns and the
\* transaction is dropped
txn_abort ==
    /\ txn # None
    /\ txn[1].status = "open"
    /\ txn' = Some([txn[1] EXCEPT !.status = "aborted"])
    /\ pc' = "closed"
    /\ cache' = None
    /\ updates' = <<>>
    /\ deletes' = {}
    /\ stage' = "none"
    /\ scan' = {}
    /\ det' = TRUE
    /\ ret' = Ret("run", "err")
    /\ UNCHANGED <<fs, dbVars, renamed, walked, nEvents, tree, reader, unwritten>>

\* write_txn.commit() and the rebuild of the cache
txn_commit ==
    /\ txn # None
    /\ txn[1].status = "open"
    /\ txn[1].todo = <<>>
    /\ txn' = Some([txn[1] EXCEPT !.status = "committed"])
    /\ mainTable' = commit(txn[1].before, txn[1].written).main
    /\ stateTable' = commit(txn[1].before, txn[1].written).state
    /\ pc' = "store"
    /\ cache' = Some(mem_map(txn[1].written.main))
    /\ updates' = <<>>
    /\ deletes' = {}
    /\ stage' = "none"
    /\ scan' = {}
    /\ det' = TRUE
    /\ ret' = Ret("run", "ok")
    /\ UNCHANGED <<fs, dbState, renamed, walked, nEvents, tree, reader, unwritten>>

ReadOps == {"db_iter", "values", "keys", "fold", "map", "state"}

\* what a read yields from the tables its transaction sees
ReadOp(op, t) ==
    CASE op = "db_iter" -> Ok(db_iter(t.main))
      [] op = "values" -> values(t.main)
      [] op = "keys" -> FileDB_keys(t.main)
      [] op = "fold" -> fold(t.main)
      [] op = "map" -> FileDB_map(t.main)
      [] op = "state" -> Ok({<<k, from_bytes(t.state[k])>> : k \in DOMAIN t.state})

\* Database::open and begin_read by the reader. While the writer holds the
\* database, the reader's open fails or it gets a read transaction
\* (`opened`), as the database library decides.
reader_begin(op, opened) ==
    /\ reader = None
    /\ dbState = "tables"
    /\ pc = "sync" \/ txn # None
    /\ ~opened => (txn # None /\ txn[1].status = "open")
    /\ reader' = IF opened
                 THEN Some([op |-> op,
                            snap |-> Some(begin_read(Tables(mainTable, stateTable),
                                              IF txn # None /\ txn[1].status = "open"
                                              THEN txn[1].written
                                              ELSE Tables(mainTable, stateTable))),
                            res |-> None])
                 ELSE Some([op |-> op, snap |-> None, res |-> Some(Err)])
    /\ UNCHANGED <<fs, dbVars, pc, cache, sessVars, ret, renamed, walked, nEvents,
                   tree, txn, unwritten>>

\* the reader reads through its read transaction
reader_read ==
    /\ reader # None
    /\ reader[1].snap # None
    /\ reader[1].res = None
    /\ reader' = Some([reader[1] EXCEPT !.res = Some(ReadOp(reader[1].op, reader[1].snap[1]))])
    /\ UNCHANGED <<fs, dbVars, pc, cache, sessVars, ret, renamed, walked, nEvents,
                   tree, txn, unwritten>>

\* a database as earlier sessions may have left it: the keys it holds have
\* two items and the stamp 1
InitTxn ==
    /\ fs \in [Keys -> {NoFile} \cup {File(st, c) : st \in Stamps, c \in Contents}]
    /\ \E D \in SUBSET Keys :
          /\ mainTable = [k \in D |-> <<serialize(1), serialize(2)>>]
          /\ stateTable = [k \in D |-> as_bytes(1)]
          /\ dbState = IF D = {} THEN "absent" ELSE "tables"
    /\ pc = "closed"
    /\ cache = None
    /\ updates = <<>>
    /\ deletes = {}
    /\ stage = "none"
    /\ scan = {}
    /\ det = TRUE
    /\ ret = Ret("init", "ok")
    /\ renamed = <<>>
    /\ walked = FALSE
    /\ nEvents = 0
    /\ tree = <<>>
    /\ txn = None
    /\ reader = None
    /\ unwritten = {}

NextTxn ==
    \/ new(FALSE)
    \/ new_msync({}, FALSE, FALSE)
    \/ async_populate({})
    \/ flat_map
    \/ \E order \in Perms(GroupKeys(updates)) : txn_begin(order)
    \/ txn_write
    \/ txn_abort
    \/ txn_commit
    \/ \E op \in ReadOps, opened \in BOOLEAN : reader_begin(op, opened)
    \/ reader_read

SpecTxn == InitTxn /\ [][NextTxn]_vars

\* -------------------------------------- reading a database of any contents
\* A main table may hold values that are no encoding of T (written with
\* another item type): here the one-byte value <<7>>.
StoredValues == {serialize(1), serialize(2), <<7>>}

SeqsUpTo(S, n) == UNION {[1..m -> S] : m \in 0..n}

ReadTables == UNION {[D -> SeqsUpTo(StoredValues, MaxItems)] : D \in SUBSET Keys}

InitRead ==
    /\ fs = [k \in Keys |-> NoFile]
    /\ dbState = "tables"
    /\ mainTable \in ReadTables
    /\ stateTable = [k \in DOMAIN mainTable |-> as_bytes(1)]
    /\ pc = "closed"
    /\ cache = None
    /\ updates = <<>>
    /\ deletes = {}
    /\ stage = "none"
    /\ scan = {}
    /\ det = TRUE
    /\ ret = Ret("init", "ok")
    /\ renamed = <<>>
    /\ walked = FALSE
    /\ nEvents = 0
    /\ tree = <<>>
    /\ txn = None
    /\ reader = None
    /\ unwritten = {}

NextRead ==
    \/ \E ioFail \in BOOLEAN : new(ioFail)
    \/ read_db_iter
    \/ read_values
    \/ read_keys
    \/ read_fold
    \/ read_map

SpecRead == InitRead /\ [][NextRead]_vars

\* ============================================================ properties
\* a step of Sync::run: at "sync" the last return is never that of a run
RunStep == pc = "sync" /\ ret'.op = "run"
RunOk == RunStep /\ ret'.status = "ok"
RunErr == RunStep /\ ret'.status = "err"

TablesUnchanged == mainTable' = mainTable /\ stateTable' = stateTable

UpdatePairs == {<<updates[i].key, updates[i].state>> : i \in DOMAIN updates}
UpdateKeys == {updates[i].key : i \in DOMAIN updates}
ScanKeys == {p[1] : p \in scan}

\* the carriers of key k, in the order of the session's updates
CarriersOf(k) ==
    LET sel == SelectSeq(updates, LAMBDA u : u.key = k)
    IN  [i \in 1..Len(sel) |-> sel[i].sync_item]

\* C1: in every reachable state, whether commits succeeded or failed, the main
\* table and the state table of oxide.db have the same key set.
C1_SameKeySets == DOMAIN mainTable = DOMAIN stateTable

\* a commit that inserted one key and removed another has succeeded
C1_Witness ==
    /\ ret.op = "run" /\ ret.status = "ok"
    /\ ret.wrote # {} /\ ret.removed # {}
    /\ DOMAIN mainTable # {}

\* C2: when run fails at any step up to and including the commit of the
\* transaction (create, begin_write, open_table, serialize, insert, remove,
\* commit), both tables hold what they held before run, whatever the
\* transaction had inserted or removed before the failing step.
C2_FailureBeforeCommitKeepsTables ==
    [][(RunErr /\ ret'.note \in FailPoints \ {"mem_map"}) => TablesUnchanged]_vars

\* the commit itself failed after the transaction had inserted a key that the
\* tables do not hold
C2_Witness ==
    /\ ret.op = "run" /\ ret.status = "err" /\ ret.note = "commit"
    /\ \E k \in ret.wrote : k \notin DOMAIN mainTable

\* C3: whenever run returns an error, for any cause including a failure while
\* the cache is rebuilt, both tables hold what they held before run.
C3_AnyErrorKeepsTables == [][RunErr => TablesUnchanged]_vars

\* the items the session's carriers hold, as external_async_map hands them over
C4_old_values == [i \in 1..Len(updates) |-> updates[i].sync_item]

\* C4: when the caller's function returns a vector whose length differs from
\* the number of carriers, external_async_map fails: no session is returned.
C4_LengthMismatchFails ==
    [][\A fn \in BatchFns :
          (/\ external_async_map(fn, FALSE)
           /\ Len(BatchFn(fn, C4_old_values)) # Len(updates)) => pc' # "sync"]_vars

\* C5: a store opened on a directory without oxide.db has an empty cache, and
\* iter never fails.
C5_FreshStoreIterates ==
    /\ (pc = "store" /\ ret.op = "new" /\ dbState = "absent") => cache = Some(<<>>)
    /\ ret.op = "iter" => ret.status = "ok"

\* C6: the updates new_msync computes are exactly the scanned pairs that are
\* not persisted as pairs, one update each: a scanned key is an update iff the
\* state table does not hold it or holds another stamp for it; without a
\* database every scanned pair is an update.
C6_UpdatesArePairDifference ==
    (pc = "sync" /\ stage = "unit") =>
        /\ UpdatePairs = {p \in scan : \/ p[1] \notin DOMAIN stateTable
                                       \/ from_bytes(stateTable[p[1]]) # p[2]}
        /\ Len(updates) = Cardinality(UpdatePairs)
        /\ \A i \in DOMAIN updates : updates[i].sync_item = Unit
        /\ dbState = "absent" => UpdatePairs = scan

\* of two scanned keys the store holds, one has its persisted stamp and is no
\* update, the other has a new stamp and is one
C6_Witness ==
    /\ pc = "sync" /\ stage = "unit"
    /\ \E p \in scan, q \in scan :
          /\ p[1] \in DOMAIN stateTable /\ from_bytes(stateTable[p[1]]) = p[2]
          /\ p \notin UpdatePairs
          /\ q[1] \in DOMAIN stateTable /\ from_bytes(stateTable[q[1]]) # q[2]
          /\ q \in UpdatePairs

C8_StateTableHoldsScannedStamps ==
    [][(RunOk /\ det) =>
          \A p \in scan :
              (fs[p[1]].present /\ fs[p[1]].stamp = p[2]) =>
                  /\ p[1] \in DOMAIN stateTable'
                  /\ from_bytes(stateTable'[p[1]]) = p[2]]_vars

\* C9: after a session of populate and deterministic stages has been committed
\* and no file has changed, the next new_msync has no updates and no deletes.
C9_ResyncIsEmpty ==
    [][(/\ pc = "store" /\ pc' = "sync"
        /\ ret.op = "run" /\ ret.status = "ok" /\ det
        /\ nEvents' = 0) => (updates' = <<>> /\ deletes' = {})]_vars

\* C10: after a successful run the main table holds, for every key with
\* carriers, exactly the encodings of that key's carriers in the order of the
\* session's updates, in place of what it held for the key before.
C10_EntryIsCarriersInOrder ==
    [][RunOk =>
          \A k \in UpdateKeys :
              /\ k \in DOMAIN mainTable'
              /\ Len(mainTable'[k]) = Len(CarriersOf(k))
              /\ \A i \in 1..Len(CarriersOf(k)) :
                    /\ mainTable'[k][i] = serialize(CarriersOf(k)[i])
                    /\ Decodable(mainTable'[k][i])
                    /\ deserialize_db_value(mainTable'[k][i]) = CarriersOf(k)[i]]_vars

\* a commit has replaced a key's sequence of two different items by another
C10_Witness ==
    /\ ret.op = "run" /\ ret.status = "ok"
    /\ \E k \in ret.over :
          /\ Len(mainTable[k]) = 2
          /\ mainTable[k][1] # mainTable[k][2]

\* the multiset of the elements of a sequence
BagOfSeq(q) ==
    [x \in {q[i] : i \in DOMAIN q} |-> Cardinality({i \in DOMAIN q : q[i] = x})]

\* C11: after a successful run the store has a cache, and the cache of a store
\* is bag-equal to what db_iter yields from the main table; values() and the
\* database's map() yield the bag of the cache's items.
C11_CacheIsDiskIter ==
    /\ (pc = "store" /\ ret.op = "run" /\ ret.status = "ok") => cache # None
    /\ (pc = "store" /\ cache # None) =>
          LET items == [i \in 1..Len(cache[1]) |-> cache[1][i][2]]
          IN  /\ BagOfSeq(cache[1]) = BagOfSeq(db_iter(mainTable))
              /\ values(mainTable).ok
              /\ BagOfSeq(values(mainTable).val) = BagOfSeq(items)
              /\ FileDB_map(mainTable).ok
              /\ BagOfSeq(FileDB_map(mainTable).val) = BagOfSeq(items)

\* a commit has left two files of two items each
C11_Witness ==
    /\ pc = "store" /\ ret.op = "run" /\ ret.status = "ok"
    /\ cache # None
    /\ Len(cache[1]) = 4
    /\ BagOfSeq(cache[1]) = BagOfSeq(db_iter(mainTable))

\* C12: after a successful run no key of the session's deletes is in the main
\* table or in the state table, and the key set of each table is its previous
\* key set with the keys of the updates added and the deletes taken away.
C12_DeletesAreRemoved ==
    [][RunOk =>
          /\ deletes \cap (DOMAIN mainTable' \cup DOMAIN stateTable') = {}
          /\ DOMAIN mainTable' = (DOMAIN mainTable \cup UpdateKeys) \ deletes
          /\ DOMAIN stateTable' = (DOMAIN stateTable \cup UpdateKeys) \ deletes]_vars

\* a commit of no update and the delete of b.md has left a.md alone in both tables
C12_Witness ==
    /\ ret.op = "run" /\ ret.status = "ok"
    /\ ret.removed = {"b.md"} /\ ret.wrote = {}
    /\ DOMAIN mainTable = {"a.md"} /\ DOMAIN stateTable = {"a.md"}

\* C13: run changes only the keys it is given: a key that is neither among the
\* updates nor in the deletes keeps its sequence of items in the main table and
\* its stamp in the state table, and a key the tables do not hold stays out.
C13_OtherKeysKeepEntries ==
    [][RunStep =>
          \A k \in Keys \ (UpdateKeys \cup deletes) :
              /\ (k \in DOMAIN mainTable') = (k \in DOMAIN mainTable)
              /\ (k \in DOMAIN stateTable') = (k \in DOMAIN stateTable)
              /\ k \in DOMAIN mainTable => mainTable'[k] = mainTable[k]
              /\ k \in DOMAIN stateTable => stateTable'[k] = stateTable[k]]_vars

\* a commit has replaced the items of one key while the tables hold another
\* key with two items that was not given to it
C13_Witness ==
    /\ ret.op = "run" /\ ret.status = "ok"
    /\ ret.over # {}
    /\ \E k \in DOMAIN mainTable \ (ret.wrote \cup ret.removed) : Len(mainTable[k]) = 2

\* C15: when the root directory cannot be opened, new_msync returns an error
\* and no session; when single entries fail, new_msync still returns a session
\* that has scanned all other entries.
C15_RootFailureIsFatal ==
    [][/\ \A ioFail \in BOOLEAN :
              new_msync({}, ioFail, TRUE) => (pc' = "closed" /\ ret'.status = "err")
       /\ \A skipped \in SUBSET Keys :
              (new_msync(skipped, FALSE, FALSE) /\ dbState # "empty") =>
                  (pc' = "sync" /\ scan' = walk({}) \ {p \in walk({}) : p[1] \in skipped})]_vars

\* C16: a key is never both among the updates and in the deletes of a session,
\* from new_msync through every stage up to run.
C16_UpdatesAndDeletesDisjoint == pc = "sync" => UpdateKeys \cap deletes = {}

\* a session with an update and a delete has gone through populate, flat_map
\* and external_async_map
C16_Witness ==
    /\ pc = "sync" /\ stage = "item" /\ ~det
    /\ updates # <<>> /\ deletes # {}

\* C18: only run writes to the database: every other step, of the store, of a
\* session or of the caller dropping the session, leaves oxide.db and both of
\* its tables as they were.
C18_OnlyRunWrites == [][~RunStep => UNCHANGED dbVars]_vars

\* a session that had an update to make for a file of the store was dropped
C18_Witness ==
    /\ pc = "closed" /\ ret.op = "new_msync" /\ ret.status = "ok"
    /\ \E k \in DOMAIN stateTable :
          fs[k].present /\ from_bytes(stateTable[k]) # fs[k].stamp

\* C20: populate drops the update of a file that is gone or cannot be read and
\* keeps every other update; the key of a file that is gone is then neither an
\* update nor a delete at run, which leaves whatever the tables held for it and
\* commits the other updates.
C20_VanishedFileKeepsEntry ==
    /\ [][\A failed \in SUBSET Keys :
              async_populate(failed) =>
                  /\ deletes' = deletes
                  /\ \A k \in UpdateKeys :
                        IF fs[k].present /\ k \notin failed
                        THEN k \in {updates'[i].key : i \in DOMAIN updates'}
                        ELSE /\ k \notin {updates'[i].key : i \in DOMAIN updates'}
                             /\ k \notin deletes']_vars
    /\ [][RunOk =>
              /\ \A p \in scan :
                    ~fs[p[1]].present =>
                        /\ p[1] \notin UpdateKeys \cup deletes
                        /\ (p[1] \in DOMAIN mainTable') = (p[1] \in DOMAIN mainTable)
                        /\ (p[1] \in DOMAIN stateTable') = (p[1] \in DOMAIN stateTable)
                        /\ p[1] \in DOMAIN mainTable =>
                              /\ mainTable'[p[1]] = mainTable[p[1]]
                              /\ stateTable'[p[1]] = stateTable[p[1]]
              /\ \A i \in DOMAIN updates :
                    /\ updates[i].key \in DOMAIN mainTable'
                    /\ from_bytes(stateTable'[updates[i].key]) = updates[i].state]_vars

\* a file of the store was rewritten, scanned, and removed before populate
\* read it: its key is no update and no delete, and the store has its old entry
C20_Witness ==
    /\ pc = "sync" /\ stage \in {"content", "item"}
    /\ \E p \in scan :
          /\ ~fs[p[1]].present
          /\ p[1] \in DOMAIN stateTable /\ from_bytes(stateTable[p[1]]) # p[2]
          /\ p[1] \in DOMAIN mainTable /\ Len(mainTable[p[1]]) = 2
          /\ p[1] \notin UpdateKeys \cup deletes

\* the decodable values of the main table, decoded, with their keys: keys
\* ascending, the values of a key in their stored order
DecodedPairs ==
    LET good == SelectSeq(all_values(mainTable), LAMBDA v : Decodable(v[2]))
    IN  [i \in 1..Len(good) |-> <<good[i][1], deserialize_db_value(good[i][2])>>]

AllDecodable == \A k \in DOMAIN mainTable : \A j \in DOMAIN mainTable[k] :
                    Decodable(mainTable[k][j])

\* C19: when the main table holds undecodable items, db_iter, values() and the
\* cache built by mem_map skip exactly those and yield every decodable item,
\* while fold and map return an error instead of a partial result (and all
\* items when every item decodes).
C19_UndecodableSkippedOrFatal ==
    /\ (pc = "store" /\ cache # None) => cache[1] = DecodedPairs
    /\ reader # None =>
          LET r == reader[1]
          IN  /\ r.op = "db_iter" => (r.res.ok /\ r.res.val = DecodedPairs)
              /\ r.op = "values" =>
                    /\ r.res.ok
                    /\ r.res.val = [i \in 1..Len(DecodedPairs) |-> DecodedPairs[i][2]]
              /\ r.op = "fold" =>
                    /\ r.res.ok = AllDecodable
                    /\ r.res.ok => r.res.val = DecodedPairs
              /\ r.op = "map" =>
                    /\ r.res.ok = AllDecodable
                    /\ r.res.ok =>
                          r.res.val = [i \in 1..Len(DecodedPairs) |-> DecodedPairs[i][2]]

\* map has failed on a table in which a.md holds an undecodable value before
\* a decodable one and b.md holds decodable values only
C19_Witness ==
    /\ reader # None /\ reader[1].op = "map" /\ ~reader[1].res.ok
    /\ cache # None /\ Len(cache[1]) = 2
    /\ DOMAIN mainTable = Keys
    /\ mainTable["a.md"] = <<(<<7>>), serialize(2)>>
    /\ mainTable["b.md"] = <<serialize(1)>>

\* the file's name has the extension md or markdown, in any case of letters
HasAcceptedExtension(name) ==
    \E n \in 1..Len(name) - 1 :
        /\ name[n] = "."
        /\ \A i \in n + 1..Len(name) : name[i] # "."
        /\ [i \in 1..Len(name) - n |-> to_ascii_lowercase(name[n + i])]
              \in {<<"m", "d">>, <<"m", "a", "r", "k", "d", "o", "w", "n">>}

\* the files the scan is to emit: regular, not hidden, of an accepted
\* extension, under no hidden directory below the root
AcceptedFiles ==
    {f \in tree.files :
        /\ f.kind = "file"
        /\ ~starts_with_dot(f.path[Len(f.path)])
        /\ HasAcceptedExtension(f.path[Len(f.path)])
        /\ \A i \in 1..Len(f.path) - 1 : ~starts_with_dot(f.path[i])}

\* C14: the scan emits a pair for exactly the regular files whose name is not
\* hidden and has the extension md or markdown in any case, and that lie under
\* no hidden directory below the root, whatever the name of the root is.
C14_ScanEmitsAcceptedFiles ==
    walked => {p[1] : p \in scan} = {f.path : f \in AcceptedFiles}

\* the tables before the write transaction of the session, and after its commit
PreCommit == IF txn = None THEN Tables(mainTable, stateTable) ELSE txn[1].before
PostCommit ==
    IF txn = None THEN Tables(mainTable, stateTable)
    ELSE remove_deletes(insert_updates(txn[1].before, txn[1].gs), txn[1].ds)

\* C17: a reader whose read transaction begins at any point of a commit's write
\* transaction sees, and reads, either both tables as they were before the
\* commit or both as the commit leaves them, the latter only once it has
\* committed; the database holds nothing else at any time.
C17_ReadersSeePreOrPost ==
    /\ Tables(mainTable, stateTable) =
          IF txn # None /\ txn[1].status = "committed" THEN PostCommit ELSE PreCommit
    /\ (reader # None /\ reader[1].snap # None) =>
          LET r == reader[1]
          IN  /\ r.snap[1] \in {PreCommit, PostCommit}
              /\ r.snap[1] # PreCommit => txn[1].status = "committed"
              /\ r.res # None =>
                    r.res[1] \in {ReadOp(r.op, PreCommit), ReadOp(r.op, PostCommit)}

\* a reader has begun and read while the write transaction had inserted a key
\* into the main table and not yet into the state table
C17_Witness ==
    /\ txn # None /\ txn[1].status = "open"
    /\ DOMAIN txn[1].written.main # DOMAIN txn[1].written.state
    /\ reader # None /\ reader[1].snap # None /\ reader[1].res # None
    /\ reader[1].res[1].ok
    /\ PostCommit # PreCommit

\* C21: after a successful run the stamp the state table holds for a key the
\* run has written is the stamp the file had when populate read the text the
\* key's items were made from, however file changes interleave with the scan
\* and the populate of the session. (The files do not change between the
\* populate and the run of a session, so the tree of the run step is the tree
\* populate read.)
C21_StampIsOfTheTextRead ==
    [][RunOk =>
          \A k \in UpdateKeys :
              /\ fs[k].present
              /\ from_bytes(stateTable'[k]) = fs[k].stamp]_vars

\* C22: every key of the main table has at least one item, in every state
\* reached by sessions that go through new_msync, the stages and run; keys()
\* yields exactly the keys with an item.
C22_NoEmptyCollections ==
    /\ \A k \in DOMAIN mainTable : Len(mainTable[k]) >= 1
    /\ dbState = "tables" =>
          /\ FileDB_keys(mainTable).ok
          /\ {FileDB_keys(mainTable).val[i] : i \in DOMAIN FileDB_keys(mainTable).val}
                = {k \in Keys : k \in DOMAIN mainTable /\ Len(mainTable[k]) >= 1}

\* a commit has written one key while the other key's file, scanned in the
\* same session, has an empty text: that key is in no table
C22_Witness ==
    /\ pc = "store" /\ ret.op = "run" /\ ret.status = "ok" /\ nEvents = 0
    /\ ret.wrote # {}
    /\ \E k \in Keys :
          /\ fs[k].present /\ fs[k].content = <<>>
          /\ k \notin DOMAIN mainTable

\* C24: a key of the state table whose file exists but whose entry fails in
\* the walk is a delete of the session new_msync returns and no update, and a
\* successful run of the session removes the key from both tables.
C24_SkippedEntryIsDeleted ==
    /\ [][\A skipped \in SUBSET Keys :
              (new_msync(skipped, FALSE, FALSE) /\ pc' = "sync") =>
                  \A k \in skipped \cap DOMAIN stateTable :
                      /\ fs[k].present
                      /\ k \in deletes'
                      /\ k \notin {updates'[i].key : i \in DOMAIN updates'}]_vars
    /\ [][RunOk =>
              \A k \in deletes :
                  k \notin DOMAIN mainTable' \cup DOMAIN stateTable']_vars

\* one entry of a store of two files failed in the walk, with no file changed:
\* the commit has removed its key and kept the other
C24_Witness ==
    /\ pc = "store" /\ ret.op = "run" /\ ret.status = "ok" /\ nEvents = 1
    /\ DOMAIN mainTable # {}
    /\ \E k \in ret.removed :
          /\ fs[k].present
          /\ k \notin DOMAIN mainTable \cup DOMAIN stateTable

\* the state table gets a new stamp for a key only in a run, and only for a
\* key that reaches the run with a carrier
C23_AdvancesOnlyWithCarriers ==
    \A k \in Keys :
        (/\ k \in DOMAIN stateTable'
         /\ (k \in DOMAIN stateTable => stateTable'[k] # stateTable[k]))
            => (RunStep /\ k \in UpdateKeys)

\* C23 as stated: the state table advances only for keys that reach the commit
\* with a carrier, and an update a commit has passed over because no carrier
\* of it was left is an update of every later new_msync whose scan finds the
\* file, until a commit writes the key.
C23_PassedOverIsAnUpdateWhileScanned ==
    /\ [][C23_AdvancesOnlyWithCarriers]_vars
    /\ [][(pc = "store" /\ pc' = "sync") =>
              \A p \in unwritten :
                  p[1] \in ScanKeys' => p[1] \in UpdateKeys']_vars

\* C23, amended: the state table advances only for keys that reach the commit
\* with a carrier, and an update a commit has passed over is an update of every
\* later new_msync whose scan finds the file with a stamp other than the one
\* the state table holds for the key, as it does while the file keeps the
\* stamp it was passed over with or the key is in no table, until a commit
\* writes the key.
C23_PassedOverIsAnUpdateWhileStampDiffers ==
    /\ [][C23_AdvancesOnlyWithCarriers]_vars
    /\ [][(pc = "store" /\ pc' = "sync") =>
              \A p \in unwritten :
                  /\ p \in scan' => p[1] \in UpdateKeys'
                  /\ (p[1] \in ScanKeys' /\ p[1] \notin DOMAIN stateTable)
                        => p[1] \in UpdateKeys'
                  /\ \A q \in scan' :
                        (q[1] = p[1] /\ q \notin state) => p[1] \in UpdateKeys']_vars

\* new_msync has returned, as an update, a file that an earlier commit passed
\* over and that has kept its stamp since
C23_Witness ==
    /\ pc = "sync" /\ stage = "unit"
    /\ \E p \in unwritten : p \in scan /\ p[1] \in UpdateKeys
====
